---- MODULE Spec2Model ----
(***************************************************************************)
(* A model of the Kegweb API client, python/kegbot/api/kbapi.py: the error *)
(* taxonomy, decode_response, Client._GetURL, Client._FetchResponse and    *)
(* the typed operations of Client.                                         *)
(*                                                                         *)
(* Python values are tagged records [t, v]; a dict is a function from its  *)
(* keys; a str that is cut at slashes is the sequence of its pieces, "/"   *)
(* for a slash and any other piece slash-free and non-empty.               *)
(***************************************************************************)
EXTENDS Integers, Sequences, FiniteSets, TLC

VARIABLES
  api_url,    \* Client._api_url
  api_key,    \* Client._api_key
  op,         \* the operation that ran last
  args,       \* its arguments
  requests,   \* the HTTP requests it issued, in order
  reply,      \* what the network gave back to the last request
  fetched,    \* how _FetchResponse / decode_response ended
  result      \* how the operation ended for its caller

vars == <<api_url, api_key, op, args, requests, reply, fetched, result>>

-----------------------------------------------------------------------------
(* Python values *)

None == [t |-> "None", v |-> ""]
JStr(s) == [t |-> "str", v |-> s]
JInt(n) == [t |-> "int", v |-> n]
JBool(b) == [t |-> "bool", v |-> b]
PyExc(e) == [t |-> "exc", v |-> e]

\* bool(x) of a Python value
Truthy(x) ==
  CASE x.t = "None" -> FALSE
    [] x.t = "str" -> x.v # ""
    [] x.t = "int" -> x.v # 0
    [] x.t = "bool" -> x.v
    [] OTHER -> TRUE

EmptyDict == <<>>

\* d.get(k, default)
Get(d, k, default) == IF k \in DOMAIN d THEN d[k] ELSE default

-----------------------------------------------------------------------------
(* The error taxonomy *)

\* class -> its base class
BASE ==
  [ Error |-> "Exception",
    NotFoundError |-> "Error",
    ServerError |-> "Error",
    BadRequestError |-> "Error",
    NoAuthTokenError |-> "Error",
    BadApiKeyError |-> "Error",
    PermissionDeniedError |-> "Error" ]

\* class -> its docstring, as lines
DOC ==
  [ Error |-> <<"An error occurred.">>,
    NotFoundError |-> <<"The requested object could not be found.">>,
    ServerError |-> <<"The server had a problem fulfilling your request.">>,
    BadRequestError |-> <<"The request was incompleted or malformed.">>,
    NoAuthTokenError |-> <<"An api_key is required.">>,
    BadApiKeyError |-> <<"The api_key given is invalid.">>,
    PermissionDeniedError |->
      <<"The api_key given does not have permission for this resource.">> ]

HTTP_CODE ==
  [ Error |-> 400,
    NotFoundError |-> 404,
    ServerError |-> 500,
    BadRequestError |-> 401,
    NoAuthTokenError |-> 401,
    BadApiKeyError |-> 401,
    PermissionDeniedError |-> 401 ]

\* cls(message): an exception object
Exc(cls, message) == [cls |-> cls, message |-> message]

NoExc == Exc("", None)

\* Error.Message as it would be with the base class's docstring for every kind
MessageOfBaseDoc(e) ==
  IF Truthy(e.message) THEN e.message ELSE JStr(DOC["Error"][1])

\* Error.Message: the message if truthy, else the first line of the docstring
Message(e) ==
  IF Truthy(e.message) THEN e.message ELSE JStr(DOC[e.cls][1])

\* Error.__subclasses__(): the direct subclasses, by name
MAP_NAME_TO_EXCEPTION ==
  [c \in {k \in DOMAIN BASE : BASE[k] = "Error"} |-> c]

\* ErrorCodeToException as it would be if an integer code selected the first
\* kind declared with that HTTP_CODE
ErrorCodeToExceptionByStatus(code, message) ==
  LET order == <<"NotFoundError", "ServerError", "BadRequestError",
                 "NoAuthTokenError", "BadApiKeyError", "PermissionDeniedError">>
      hits == {i \in DOMAIN order : code.t = "int" /\ HTTP_CODE[order[i]] = code.v}
      cls == IF code.t = "str" /\ code.v \in DOMAIN MAP_NAME_TO_EXCEPTION
               THEN MAP_NAME_TO_EXCEPTION[code.v]
             ELSE IF hits # {}
               THEN order[CHOOSE i \in hits : \A j \in hits : i <= j]
             ELSE "Error"
  IN Exc(cls, message)

\* MAP_NAME_TO_EXCEPTION.get(code, Error)(message); a code that is no str
\* equals no class name
ErrorCodeToException(code, message) ==
  LET cls == IF code.t = "str" /\ code.v \in DOMAIN MAP_NAME_TO_EXCEPTION
               THEN MAP_NAME_TO_EXCEPTION[code.v]
               ELSE "Error"
  IN Exc(cls, message)

-----------------------------------------------------------------------------
(* decode_response *)

Return(value) == [tag |-> "return", value |-> value, exc |-> NoExc]
Raise(e) == [tag |-> "raise", value |-> None, exc |-> e]
NoOutcome == [tag |-> "none", value |-> None, exc |-> NoExc]

\* a response body: text that is JSON for the dict `value`, or is not JSON
Body(value) == [wellformed |-> TRUE, value |-> value]
Malformed == [wellformed |-> FALSE, value |-> EmptyDict]

Response(status_code, text) ==
  [kind |-> "http", status_code |-> status_code, text |-> text]

InvalidResponse ==
  Exc("ValueError", JStr("Invalid response from server: missing result or error"))

\* decode_response as it would be with the success test made before the
\* error test
decode_responseObjectFirst(response) ==
  IF ~response.text.wellformed
    THEN Raise(Exc("ValueError", JStr("No JSON object could be decoded")))
  ELSE
    LET response_dict == response.text.value IN
    IF "object" \in DOMAIN response_dict \/ "objects" \in DOMAIN response_dict
      THEN Return(response_dict)
    ELSE IF "error" \in DOMAIN response_dict
      THEN LET err == response_dict["error"]
               code == Get(err, "code", JInt(response.status_code))
               message == Get(err, "message", None)
           IN Raise(ErrorCodeToException(code, message))
    ELSE Raise(InvalidResponse)

\* decode_response as it would be with only 'object' tested for success
decode_responseObjectOnly(response) ==
  IF ~response.text.wellformed
    THEN Raise(Exc("ValueError", JStr("No JSON object could be decoded")))
  ELSE
    LET response_dict == response.text.value IN
    IF "error" \in DOMAIN response_dict
      THEN LET err == response_dict["error"]
               code == Get(err, "code", JInt(response.status_code))
               message == Get(err, "message", None)
           IN Raise(ErrorCodeToException(code, message))
    ELSE IF "object" \in DOMAIN response_dict
      THEN Return(response_dict)
    ELSE Raise(InvalidResponse)

decode_response(response) ==
  LET status_code == response.status_code IN
  IF ~response.text.wellformed
    \* kbjson.loads raises on text that is not JSON
    THEN Raise(Exc("ValueError", JStr("No JSON object could be decoded")))
  ELSE
    LET response_dict == response.text.value IN
    IF "error" \in DOMAIN response_dict
      THEN LET err == response_dict["error"]
               code == Get(err, "code", JInt(status_code))
               message == Get(err, "message", None)
           IN Raise(ErrorCodeToException(code, message))
    ELSE IF "object" \in DOMAIN response_dict \/ "objects" \in DOMAIN response_dict
      THEN Return(response_dict)
    ELSE Raise(InvalidResponse)

-----------------------------------------------------------------------------
(* The responses decode_response is applied to *)

KindNames ==
  {"NotFoundError", "ServerError", "BadRequestError", "NoAuthTokenError",
   "BadApiKeyError", "PermissionDeniedError"}

Statuses == {200, 400, 401, 404, 500, 503}

Codes ==
  {JStr(k) : k \in KindNames}
    \cup {JStr("Error"), JStr("UnknownThing"), JStr(""), JInt(404), JInt(500)}

Messages == {None, JStr(""), JStr("gone")}

\* {} or {k: v} for v in vals
Opt(k, vals) == {EmptyDict} \cup {k :> v : v \in vals}

\* the `error` objects of the wire format: `code` a string, a number or
\* absent; `message` a string, null or absent
ErrDicts ==
  {c @@ m : c \in Opt("code", Codes), m \in Opt("message", Messages)}

\* the envelopes with an error out of errs or none, with or without `object`,
\* with or without `objects`, with another key out of metas or none
Envelopes(errs, metas) ==
  {e @@ o @@ os @@ x :
     e \in Opt("error", errs),
     o \in Opt("object", {[a |-> JInt(1)]}),
     os \in Opt("objects", {<<JInt(1), JInt(2)>>}),
     x \in Opt("meta", metas)}

DecodeInputs ==
  {Response(s, b) :
     s \in Statuses, b \in {Malformed} \cup {Body(d) : d \in Envelopes(ErrDicts, {[page |-> JInt(1)]})}}

\* the state before anything was sent
Idle ==
  /\ args = EmptyDict
  /\ requests = <<>>
  /\ fetched = NoOutcome
  /\ result = NoOutcome

InitDecode ==
  /\ api_url = <<>>
  /\ api_key = ""
  /\ op = "pending"
  /\ reply \in DecodeInputs
  /\ Idle

Decode ==
  /\ op = "pending"
  /\ op' = "decode_response"
  /\ fetched' = decode_response(reply)
  /\ result' = fetched'
  /\ UNCHANGED <<api_url, api_key, args, requests, reply>>

SpecDecode == InitDecode /\ [][Decode]_vars

-----------------------------------------------------------------------------
(* Client._GetURL *)

Slash == "/"

RECURSIVE rstrip(_)
\* s.rstrip('/'): s without the slashes it ends in
rstrip(s) ==
  IF s # <<>> /\ s[Len(s)] = Slash THEN rstrip(SubSeq(s, 1, Len(s) - 1)) ELSE s

RECURSIVE lstrip(_)
\* s.lstrip('/'): s without the slashes it starts with
lstrip(s) ==
  IF s # <<>> /\ s[1] = Slash THEN lstrip(Tail(s)) ELSE s

\* s.strip('/')
strip(s) == lstrip(rstrip(s))

\* s without one slash at its end, if it ends in one
RStripOne(s) ==
  IF s # <<>> /\ s[Len(s)] = Slash THEN SubSeq(s, 1, Len(s) - 1) ELSE s

\* s without one slash at its start, if it starts with one
LStripOne(s) ==
  IF s # <<>> /\ s[1] = Slash THEN Tail(s) ELSE s

\* _GetURL as it would be if it removed one slash at each edge
GetURLStripOne(base_url, endpoint) ==
  RStripOne(base_url) \o <<Slash>> \o LStripOne(RStripOne(endpoint))

\* '%s/%s' % (self._api_url.rstrip('/'), endpoint.strip('/'))
_GetURL(base_url, endpoint) ==
  rstrip(base_url) \o <<Slash>> \o strip(endpoint)

MaxLen == 3

\* the strings of at most n pieces, each a slash or the slash-free piece "a"
Strs(n) == UNION {[1..k -> {Slash, "a"}] : k \in 0..n}

InitURL ==
  /\ api_url \in Strs(MaxLen)
  /\ api_key = ""
  /\ op = "pending"
  /\ reply = NoOutcome
  /\ args \in {[endpoint |-> e] : e \in Strs(MaxLen)}
  /\ requests = <<>>
  /\ fetched = NoOutcome
  /\ result = NoOutcome

GetURL ==
  /\ op = "pending"
  /\ op' = "_GetURL"
  /\ result' = Return(_GetURL(api_url, args.endpoint))
  /\ UNCHANGED <<api_url, api_key, args, requests, reply, fetched>>

SpecURL == InitURL /\ [][GetURL]_vars

-----------------------------------------------------------------------------
(* Client: construction and transport *)

\* gflags api_url and api_key, at their defaults
FLAGS_api_url == <<"http:", Slash, Slash, "localhost:8000", Slash, "api", Slash>>
FLAGS_api_key == ""

\* Client.__init__: an argument that is None is taken from FLAGS
Client__init__(url, key) ==
  /\ api_url = IF url = None THEN FLAGS_api_url ELSE url.v
  /\ api_key = IF key = None THEN FLAGS_api_key ELSE key.v

ApiKeyHeader == "X-Kegbot-Api-Key"

\* the headers of _FetchResponse as they would be with the flag's key
HeadersOfFlag(key) == ApiKeyHeader :> FLAGS_api_key

\* headers = {'X-Kegbot-Api-Key': self._api_key}
Headers(key) == ApiKeyHeader :> key

\* bool(post_data): a dict that is given and not empty
HasPostData(post_data) == post_data # None /\ post_data # EmptyDict

\* the call _FetchResponse makes: requests.post if post_data, else requests.get
RequestOf(base_url, key, endpoint, params, post_data) ==
  IF HasPostData(post_data)
    THEN [method |-> "POST", url |-> _GetURL(base_url, endpoint),
          params |-> params, data |-> post_data, headers |-> Headers(key)]
    ELSE [method |-> "GET", url |-> _GetURL(base_url, endpoint),
          params |-> params, data |-> EmptyDict, headers |-> Headers(key)]

\* a request that did not get a response: requests raises
Failure(exc) == [kind |-> "failure", exc |-> exc]

\* the requests of _FetchResponse as they would be with a second attempt
\* after a failed one
IssuedWithRetry(request, r) ==
  IF r.kind = "failure" THEN <<request, request>> ELSE <<request>>

\* the requests _FetchResponse issues when the network answers r
Issued(request, r) == <<request>>

\* the end of _FetchResponse: what requests raised, or decode_response(r)
Fetched(r) ==
  IF r.kind = "failure" THEN Raise(Exc(r.exc, None)) ELSE decode_response(r)

\* _FetchResponse, answered by r
_FetchResponse(endpoint, params, post_data, r) ==
  /\ requests' = Issued(RequestOf(api_url, api_key, endpoint, params, post_data), r)
  /\ reply' = r
  /\ fetched' = Fetched(r)

DoGET(endpoint, r) == _FetchResponse(endpoint, None, None, r)
DoPOST(endpoint, post_data, r) == _FetchResponse(endpoint, None, post_data, r)

\* d.attr of the dict a call returned; a raise passes through
Attr(outcome, attr) ==
  IF outcome.tag # "return" THEN outcome
  ELSE IF attr \in DOMAIN outcome.value THEN Return(outcome.value[attr])
  ELSE Raise(Exc("AttributeError", JStr(attr)))

RECURSIVE IsSubclass(_, _)
IsSubclass(cls, base) ==
  \/ cls = base
  \/ cls \in DOMAIN BASE /\ IsSubclass(BASE[cls], base)

\* an except clause for `base` catches the outcome
Catches(outcome, base) == outcome.tag = "raise" /\ IsSubclass(outcome.exc.cls, base)

SetAuthToken ==
  \E key \in {"", "newkey"} :
    /\ api_key' = key
    /\ op' = "SetAuthToken"
    /\ args' = [api_key |-> key]
    /\ requests' = <<>>
    /\ reply' = NoOutcome
    /\ fetched' = NoOutcome
    /\ result' = Return(None)
    /\ UNCHANGED api_url

-----------------------------------------------------------------------------
(* Client: the typed operations *)

\* RecordDrink's post_data as it would be with volume_ml tested for truth
RecordDrinkPostDataTruthy(a, now) ==
  ("tap_name" :> a.tap_name) @@ ("ticks" :> a.ticks)
    @@ (IF Truthy(a.volume_ml) THEN "volume_ml" :> a.volume_ml ELSE EmptyDict)
    @@ (IF a.username # None THEN "username" :> a.username ELSE EmptyDict)
    @@ (IF a.duration.v > 0 THEN "duration" :> a.duration ELSE EmptyDict)
    @@ (IF a.auth_token # None THEN "auth_token" :> a.auth_token ELSE EmptyDict)
    @@ (IF Truthy(a.spilled) THEN "spilled" :> a.spilled ELSE EmptyDict)
    @@ (IF Truthy(a.shout) THEN "shout" :> a.shout ELSE EmptyDict)
    @@ (IF Truthy(a.pour_time)
          THEN ("pour_time" :> JInt(a.pour_time.v)) @@ ("now" :> JInt(now))
          ELSE EmptyDict)

\* the post_data RecordDrink builds; pour_time is a datetime, kept as its
\* epoch seconds, and now is the clock's
RecordDrinkPostData(a, now) ==
  ("tap_name" :> a.tap_name) @@ ("ticks" :> a.ticks)
    @@ (IF a.volume_ml # None THEN "volume_ml" :> a.volume_ml ELSE EmptyDict)
    @@ (IF a.username # None THEN "username" :> a.username ELSE EmptyDict)
    @@ (IF a.duration.v > 0 THEN "duration" :> a.duration ELSE EmptyDict)
    @@ (IF a.auth_token # None THEN "auth_token" :> a.auth_token ELSE EmptyDict)
    @@ (IF Truthy(a.spilled) THEN "spilled" :> a.spilled ELSE EmptyDict)
    @@ (IF Truthy(a.shout) THEN "shout" :> a.shout ELSE EmptyDict)
    @@ (IF Truthy(a.pour_time)
          THEN ("pour_time" :> JInt(a.pour_time.v)) @@ ("now" :> JInt(now))
          ELSE EmptyDict)

DateTime(epoch) == [t |-> "datetime", v |-> epoch]

DoRecordDrink(a, now, r) ==
  /\ op' = "RecordDrink"
  /\ args' = a
  /\ DoPOST(<<Slash, "taps", Slash, a.tap_name.v>>, RecordDrinkPostData(a, now), r)
  /\ result' = Attr(fetched', "object")
  /\ UNCHANGED <<api_url, api_key>>

DoCancelDrink(a, r) ==
  /\ op' = "CancelDrink"
  /\ args' = a
  /\ DoPOST(<<Slash, "cancel-drink">>, [id |-> a.seqn, spilled |-> a.spilled], r)
  /\ result' = Attr(fetched', "object")
  /\ UNCHANGED <<api_url, api_key>>

\* float(temperature)
Float(x) == [t |-> "float", v |-> x.v]

DoLogSensorReading(a, r) ==
  /\ op' = "LogSensorReading"
  /\ args' = a
  /\ DoPOST(<<Slash, "thermo-sensors", Slash, a.sensor_name.v>>,
            [temp_c |-> Float(a.temperature)], r)
  /\ result' = Attr(fetched', "object")
  /\ UNCHANGED <<api_url, api_key>>

DoGETObjects(name, endpoint, r) ==
  /\ op' = name
  /\ args' = EmptyDict
  /\ DoGET(endpoint, r)
  /\ result' = Attr(fetched', "objects")
  /\ UNCHANGED <<api_url, api_key>>

\* GetToken's try block as it would be without its except clause
GetTokenOutcomeUncaught(outcome) == Attr(outcome, "object")

\* GetToken's try block: a ServerError of the call is raised as NotFoundError(e)
GetTokenOutcome(outcome) ==
  IF Catches(Attr(outcome, "object"), "ServerError")
    THEN Raise(Exc("NotFoundError", PyExc(outcome.exc)))
    ELSE Attr(outcome, "object")

DoGetToken(a, r) ==
  /\ op' = "GetToken"
  /\ args' = a
  /\ DoGET(<<"auth-tokens", Slash, a.auth_device.v, Slash, a.token_value.v>>, r)
  /\ result' = GetTokenOutcome(fetched')
  /\ UNCHANGED <<api_url, api_key>>

-----------------------------------------------------------------------------
(* The client in use: any sequence of operations, any answers *)

ClientErrDicts ==
  {c @@ m :
     c \in Opt("code", {JStr("ServerError"), JStr("NotFoundError"),
                        JStr("BadApiKeyError")}),
     m \in Opt("message", {JStr("gone")})}

Replies ==
  {Failure("ConnectionError"), Failure("Timeout")}
    \cup {Response(s, b) :
            s \in {404},
            b \in {Malformed} \cup {Body(d) : d \in Envelopes(ClientErrDicts, {})}}

Clock == {1700000060}

DefaultDrink ==
  [tap_name |-> JStr("kegboard.flow0"), ticks |-> JInt(2200), volume_ml |-> None,
   username |-> None, pour_time |-> None, duration |-> JInt(0),
   auth_token |-> None, spilled |-> JBool(FALSE), shout |-> JStr("")]

Init ==
  /\ \E url \in {None, JStr(<<"http:", Slash, Slash, "x", Slash, "api">>)},
        key \in {None, JStr("key")} :
       Client__init__(url, key)
  /\ op = "__init__"
  /\ reply = NoOutcome
  /\ Idle

RecordDrink ==
  \E a \in {DefaultDrink,
            [DefaultDrink EXCEPT !.spilled = JBool(TRUE),
                                 !.pour_time = DateTime(1700000000)]},
     now \in Clock, r \in Replies :
    DoRecordDrink(a, now, r)

CancelDrink ==
  \E spilled \in BOOLEAN, r \in Replies :
    DoCancelDrink([seqn |-> JInt(7), spilled |-> JBool(spilled)], r)

LogSensorReading ==
  \E r \in Replies :
    DoLogSensorReading([sensor_name |-> JStr("thermo0"), temperature |-> JInt(4),
                        when |-> None], r)

TapStatus == \E r \in Replies : DoGETObjects("TapStatus", <<"taps">>, r)

GetToken ==
  \E r \in Replies :
    DoGetToken([auth_device |-> JStr("core.rfid"), token_value |-> JStr("abc123")], r)

AllDrinks == \E r \in Replies : DoGETObjects("AllDrinks", <<"drinks">>, r)

AllSoundEvents ==
  \E r \in Replies : DoGETObjects("AllSoundEvents", <<"sound-events">>, r)

Next ==
  \/ SetAuthToken
  \/ RecordDrink
  \/ CancelDrink
  \/ LogSensorReading
  \/ TapStatus
  \/ GetToken
  \/ AllDrinks
  \/ AllSoundEvents

Spec == Init /\ [][Next]_vars

-----------------------------------------------------------------------------
(* RecordDrink alone, over its arguments *)

RecordDrinkArgs ==
  [tap_name : {JStr("kegboard.flow0")},
   ticks : {JInt(0), JInt(2200)},
   volume_ml : {None, JInt(0), JInt(355)},
   username : {None, JStr(""), JStr("bob")},
   pour_time : {None, DateTime(1700000000)},
   duration : {JInt(-1), JInt(0), JInt(12)},
   auth_token : {None, JStr(""), JStr("tok")},
   spilled : {JBool(FALSE), JBool(TRUE)},
   shout : {JStr(""), JStr("cheers")}]

InitRecordDrink ==
  /\ Client__init__(None, None)
  /\ op = "pending"
  /\ args \in RecordDrinkArgs
  /\ requests = <<>>
  /\ reply = NoOutcome
  /\ fetched = NoOutcome
  /\ result = NoOutcome

RecordDrinkPending ==
  /\ op = "pending"
  /\ \E now \in Clock,
        r \in {Failure("Timeout"), Response(200, Body([object |-> [id |-> JInt(1)]]))} :
       DoRecordDrink(args, now, r)

SpecRecordDrink == InitRecordDrink /\ [][RecordDrinkPending]_vars

-----------------------------------------------------------------------------
(* Properties of decode_response, under SpecDecode *)

Decoded == op = "decode_response"
ParsedEnvelope == reply.text.value
IsEnvelope == Decoded /\ reply.text.wellformed
IsErrorEnvelope == IsEnvelope /\ "error" \in DOMAIN ParsedEnvelope
ErrOf == ParsedEnvelope["error"]
Raised == fetched.exc

\* C1: an envelope with the key `error`, whatever its other keys, makes
\* decode_response raise and never return; a `code` that is the name of one
\* of the six specific kinds raises that kind, any other `code` raises Error.
C1_ErrorEnvelopeRaisesKindOfCode ==
  IsErrorEnvelope =>
    /\ fetched.tag = "raise"
    /\ "code" \in DOMAIN ErrOf =>
         LET code == ErrOf["code"] IN
         IF code.t = "str" /\ code.v \in
              {"NotFoundError", "ServerError", "BadRequestError",
               "NoAuthTokenError", "BadApiKeyError", "PermissionDeniedError"}
           THEN Raised.cls = code.v
           ELSE Raised.cls = "Error"

C1_Witness ==
  /\ IsErrorEnvelope
  /\ "object" \in DOMAIN ParsedEnvelope
  /\ "code" \in DOMAIN ErrOf
  /\ ErrOf["code"] = JStr("BadApiKeyError")
  /\ fetched.tag = "raise"
  /\ Raised.cls = "BadApiKeyError"

\* the kinds whose default status is s
KindsOfStatus(s) == {k \in DOMAIN HTTP_CODE : HTTP_CODE[k] = s}

\* C2 as stated: an error envelope without `code` raises a kind whose default
\* status is the response's HTTP status (404 NotFoundError, 500 ServerError),
\* and Error only when the status is that of no specific kind.
C2_StatusSelectsKind ==
  (IsErrorEnvelope /\ "code" \notin DOMAIN ErrOf) =>
    /\ fetched.tag = "raise"
    /\ IF KindsOfStatus(reply.status_code) # {}
         THEN Raised.cls \in KindsOfStatus(reply.status_code)
         ELSE Raised.cls = "Error"

\* C2 as amended: an error envelope without `code` raises Error whatever the
\* HTTP status is, 404 and 500 included: the status stands in for the code
\* and is the name of no kind.
C2_NoCodeRaisesGeneric ==
  (IsErrorEnvelope /\ "code" \notin DOMAIN ErrOf) =>
    /\ fetched.tag = "raise"
    /\ Raised.cls = "Error"

C2_Witness ==
  /\ IsErrorEnvelope
  /\ "code" \notin DOMAIN ErrOf
  /\ reply.status_code = 404
  /\ fetched.tag = "raise"
  /\ Raised.cls = "Error"

SummaryOf(k) ==
  CASE k = "Error" -> "An error occurred."
    [] k = "NotFoundError" -> "The requested object could not be found."
    [] k = "ServerError" -> "The server had a problem fulfilling your request."
    [] k = "BadRequestError" -> "The request was incompleted or malformed."
    [] k = "NoAuthTokenError" -> "An api_key is required."
    [] k = "BadApiKeyError" -> "The api_key given is invalid."
    [] k = "PermissionDeniedError" ->
         "The api_key given does not have permission for this resource."

\* C4 as stated: Message() of the error raised for an error envelope is the
\* server's `message` whenever the envelope supplies one, and otherwise the
\* default summary of the kind raised.
C4_MessageWheneverSupplied ==
  IsErrorEnvelope =>
    IF "message" \in DOMAIN ErrOf /\ ErrOf["message"] # None
      THEN Message(Raised) = ErrOf["message"]
      ELSE Message(Raised) = JStr(SummaryOf(Raised.cls))

\* C4 as amended: Message() is the server's `message` when the envelope
\* supplies a non-empty one, and the default summary of the kind raised, never
\* of another kind, when `message` is absent, null or the empty string.
C4_MessageOrSummaryOfRaisedKind ==
  IsErrorEnvelope =>
    IF "message" \in DOMAIN ErrOf /\ ErrOf["message"].t = "str"
         /\ ErrOf["message"].v # ""
      THEN Message(Raised) = ErrOf["message"]
      ELSE Message(Raised) = JStr(SummaryOf(Raised.cls))

C4_Witness ==
  /\ IsErrorEnvelope
  /\ "message" \notin DOMAIN ErrOf
  /\ Raised.cls = "NotFoundError"
  /\ Message(Raised) = JStr("The requested object could not be found.")

-----------------------------------------------------------------------------
(* Properties of Client._GetURL, under SpecURL *)

Joined == op = "_GetURL"

\* C9 as stated: the URL is the base URL without exactly one trailing slash,
\* a slash, and the endpoint without exactly one leading and one trailing
\* slash; several slashes at an edge lose only one of them.
C9_StripsOneSlash ==
  Joined =>
    result.value =
      RStripOne(api_url) \o <<Slash>> \o LStripOne(RStripOne(args.endpoint))

\* t is s cut after its last piece that is not a slash
IsRStripped(s, t) ==
  \E i \in 0..Len(s) :
    /\ t = SubSeq(s, 1, i)
    /\ i = 0 \/ s[i] # Slash
    /\ \A j \in (i + 1)..Len(s) : s[j] = Slash

\* t is s cut before its first piece that is not a slash
IsLStripped(s, t) ==
  \E i \in 1..(Len(s) + 1) :
    /\ t = SubSeq(s, i, Len(s))
    /\ i = Len(s) + 1 \/ s[i] # Slash
    /\ \A j \in 1..(i - 1) : s[j] = Slash

\* C9 as amended: the URL is the base URL without all of its trailing
\* slashes, a single slash, and the endpoint without all of its leading and
\* all of its trailing slashes.
C9_StripsEverySlash ==
  Joined =>
    \E b \in Strs(Len(api_url)), e \in Strs(Len(args.endpoint)) :
      /\ IsRStripped(api_url, b)
      /\ \E m \in Strs(Len(args.endpoint)) :
           IsRStripped(args.endpoint, m) /\ IsLStripped(m, e)
      /\ result.value = b \o <<Slash>> \o e

C9_Witness ==
  /\ Joined
  /\ api_url = <<"a", Slash, Slash>>
  /\ args.endpoint = <<Slash, Slash, "a">>
  /\ result.value = <<"a", Slash, "a">>

-----------------------------------------------------------------------------
(* Properties of the client, under Spec *)

PostOps == {"RecordDrink", "CancelDrink", "LogSensorReading"}
GetOps == {"TapStatus", "GetToken", "AllDrinks", "AllSoundEvents"}
TypedOps == PostOps \cup GetOps

\* C5: GetToken raises NotFoundError whenever its request ends in ServerError,
\* and never ServerError; every other end of the request (the payload, another
\* kind, a decode failure, a failed connection) reaches the caller unchanged;
\* no other operation turns a ServerError into anything else.
C5_GetTokenServerErrorIsNotFound ==
  /\ op = "GetToken" =>
       /\ ~(result.tag = "raise" /\ result.exc.cls = "ServerError")
       /\ fetched.tag = "raise" =>
            /\ result.tag = "raise"
            /\ IF fetched.exc.cls = "ServerError"
                 THEN result.exc.cls = "NotFoundError"
                 ELSE result = fetched
       /\ (fetched.tag = "return" /\ "object" \in DOMAIN fetched.value) =>
            result = Return(fetched.value["object"])
  /\ (op \in TypedOps \ {"GetToken"} /\ fetched.tag = "raise") => result = fetched

C5_Witness ==
  /\ op = "GetToken"
  /\ fetched.tag = "raise"
  /\ fetched.exc.cls = "ServerError"
  /\ result.tag = "raise"
  /\ result.exc.cls = "NotFoundError"

\* C6: every request carries the header X-Kegbot-Api-Key with the stored key,
\* empty or not; SetAuthToken stores its argument; no other operation changes
\* the stored key, and none changes the base URL, however it ends.
C6_KeyFollowsSetAuthToken ==
  [][ /\ api_url' = api_url
      /\ IF op' = "SetAuthToken"
           THEN api_key' = args'.api_key
           ELSE /\ api_key' = api_key
                /\ requests' # <<>>
                /\ \A i \in DOMAIN requests' :
                     /\ "X-Kegbot-Api-Key" \in DOMAIN requests'[i].headers
                     /\ requests'[i].headers["X-Kegbot-Api-Key"] = api_key
    ]_vars

C6_Witness ==
  /\ op = "GetToken"
  /\ api_key = "newkey"
  /\ result.tag = "raise"
  /\ requests # <<>>
  /\ requests[1].headers["X-Kegbot-Api-Key"] = "newkey"

\* C7: every typed operation issues exactly one HTTP request, however it
\* ends; a failure reaches the caller as a failure; the request is a POST
\* with the form data for RecordDrink, CancelDrink and LogSensorReading, and a
\* GET for TapStatus, GetToken, AllDrinks and AllSoundEvents.
C7_OneRequestPerCall ==
  op \in TypedOps =>
    /\ Len(requests) = 1
    /\ fetched.tag = "raise" => result.tag = "raise"
    /\ op \in PostOps =>
         requests[1].method = "POST" /\ DOMAIN requests[1].data # {}
    /\ op \in GetOps =>
         requests[1].method = "GET" /\ DOMAIN requests[1].data = {}

C7_Witness ==
  /\ op = "CancelDrink"
  /\ reply.kind = "failure"
  /\ Len(requests) = 1
  /\ requests[1].method = "POST"
  /\ result.tag = "raise"

\* C10: when the HTTP call fails at the connection, or the response is not
\* JSON, the caller of a typed operation gets an error of the ServerError
\* kind.
C10_TransportFailureIsServerError ==
  (op \in TypedOps /\ (reply.kind = "failure" \/ ~reply.text.wellformed)) =>
    /\ result.tag = "raise"
    /\ result.exc.cls = "ServerError"

-----------------------------------------------------------------------------
(* Properties of RecordDrink, under SpecRecordDrink *)

Given(cond, field) == IF cond THEN {field} ELSE {}

\* C8: the form fields of RecordDrink are tap_name and ticks always;
\* volume_ml, username and auth_token each iff the argument is not None;
\* duration iff duration > 0; spilled iff spilled is true; shout iff shout is
\* not empty; pour_time and now, both or neither, iff pour_time is given.
C8_RecordDrinkFormFields ==
  op = "RecordDrink" =>
    /\ Len(requests) = 1
    /\ DOMAIN requests[1].data =
         {"tap_name", "ticks"}
           \cup Given(args.volume_ml # None, "volume_ml")
           \cup Given(args.username # None, "username")
           \cup Given(args.auth_token # None, "auth_token")
           \cup Given(args.duration.v > 0, "duration")
           \cup Given(args.spilled = JBool(TRUE), "spilled")
           \cup Given(args.shout # JStr(""), "shout")
           \cup Given(args.pour_time # None, "pour_time")
           \cup Given(args.pour_time # None, "now")
    /\ requests[1].data["tap_name"] = args.tap_name
    /\ requests[1].data["ticks"] = args.ticks

C8_Witness ==
  /\ op = "RecordDrink"
  /\ args = DefaultDrink
  /\ DOMAIN requests[1].data = {"tap_name", "ticks"}

====
